---- MODULE Spec2Model ----
(***************************************************************************)
(* Dense matrices over the integers: fpylll's IntegerMatrix and            *)
(* IntegerMatrixRow (src/fpylll/integer_matrix.pyx).                       *)
(*                                                                         *)
(* A matrix object is a handle into `heap`; the cell values are the mpz    *)
(* values of the backing ZZ_mat.  Every action is one call of one method,  *)
(* run to completion (the program is single threaded).  `pre` keeps the    *)
(* heap as it was when the call started, `call` the method and its         *)
(* arguments, `ret` what the call returned or raised.                      *)
(***************************************************************************)
EXTENDS Integers, Sequences, FiniteSets, TLC

VARIABLES heap, bindB, view, ret, call, pre, nops

vars == <<heap, bindB, view, ret, call, pre, nops>>

(***************************************************************************)
(* Bounds of the model.                                                    *)
(***************************************************************************)
\* largest number of rows / columns of a constructed matrix
MaxRows == 2
MaxCols == 2
\* the machine word, scaled down: an mpz limb holds a digit 0..LimbBase-1,
\* so a value v with |v| >= LimbBase is "beyond the word range"
LimbBase == 4
\* how many calls that change or create a matrix a behaviour makes
MaxWrites == 1
\* largest modulus tried
MaxQ == 3
\* how many calls follow a copy construction
MaxSeq == 2
\* longest list of row or column indices handed to submatrix
MaxSel == 2

Abs(x) == IF x < 0 THEN -x ELSE x

\* a value that needs three limbs
BigVal == LimbBase * LimbBase + 1

RowIdx == (-(MaxRows + 1)) .. MaxRows
ColIdx == (-(MaxCols + 1)) .. MaxCols
SetVals == {1, -BigVal, BigVal + LimbBase}

(***************************************************************************)
(* Big integers.  fpylll.io (assign_Z_NR_mpz, assign_mpz, mpz_get_python)  *)
(* is not part of the sources at hand; the conversions are modelled from   *)
(* the specification: a Python integer is stored as sign and limbs and     *)
(* read back from them, whatever its size.                                 *)
(***************************************************************************)
RECURSIVE Limbs(_)
Limbs(n) == IF n = 0 THEN <<>> ELSE <<n % LimbBase>> \o Limbs(n \div LimbBase)

RECURSIVE LimbsValue(_)
LimbsValue(s) == IF s = <<>> THEN 0 ELSE Head(s) + LimbBase * LimbsValue(Tail(s))

\* Python integer -> mpz
assign_mpz(value) == [neg |-> value < 0, limbs |-> Limbs(Abs(value))]

\* mpz -> Python integer
mpz_get_python(z) == IF z.neg THEN -LimbsValue(z.limbs) ELSE LimbsValue(z.limbs)

\* the value a cell holds after assign_Z_NR_mpz(cell, value)
assign_Z_NR_mpz(value) == mpz_get_python(assign_mpz(value))

\* Z_NR.getData(): the mpz of a cell
getData(cell) == assign_mpz(cell)

(***************************************************************************)
(* preprocess_indices(i, j, m, n) of fpylll.util, not part of the sources  *)
(* at hand, modelled from the specification: a negative index counts from  *)
(* the end, once; an index outside 0..dim-1 after that is an IndexError.   *)
(* The callee works on references: `i`, `j` are what the caller's          *)
(* variables hold afterwards.                                              *)
(***************************************************************************)
preprocess_indices(i, j, m, n) ==
    LET i2 == IF i < 0 THEN i + m ELSE i
        j2 == IF j < 0 THEN j + n ELSE j
    IN  [i |-> i2, j |-> j2,
         ok |-> (0 <= i2 /\ i2 < m /\ 0 <= j2 /\ j2 < n)]

(***************************************************************************)
(* Matrices.  ZZ_mat[mpz_t](r, c): r rows of c zero cells, rows and        *)
(* columns counted from 0.                                                 *)
(***************************************************************************)
NoMatrix == [nrows |-> -1, ncols |-> -1, ent |-> <<>>]

ZZ_mat(r, c) ==
    [nrows |-> r, ncols |-> c,
     ent |-> [i \in 0 .. (r - 1) |-> [j \in 0 .. (c - 1) |-> 0]]]

\* the matrix of shape r x c whose cell (i, j) is f[i][j]
MatrixOf(r, c, f) ==
    [nrows |-> r, ncols |-> c,
     ent |-> [i \in 0 .. (r - 1) |-> [j \in 0 .. (c - 1) |-> f[i][j]]]]

Cells(M) == (0 .. (M.nrows - 1)) \X (0 .. (M.ncols - 1))

\* what a call returns or raises
Returned(kind, val) == [err |-> "none", kind |-> kind, val |-> val]
Raised(err) == [err |-> err, kind |-> "none", val |-> 0]

\* a signal that ends the process
Fatal == {"SIGFPE", "SIGSEGV"}
Alive == ret.err \notin Fatal

\* IntegerMatrix.__init__(arg0, arg1) with two integers
IntegerMatrix(arg0, arg1) ==
    IF arg0 < 0 \/ arg1 < 0
    THEN [m |-> NoMatrix, ret |-> Raised("ValueError")]
    ELSE [m |-> ZZ_mat(arg0, arg1), ret |-> Returned("matrix", 0)]

\* IntegerMatrix.__getitem__(key) with key a tuple (i, j)
getitem(M, i, j) ==
    LET p == preprocess_indices(i, j, M.nrows, M.ncols)
    IN  IF ~p.ok
        THEN [ret |-> Raised("IndexError")]
        ELSE [ret |-> Returned("int", mpz_get_python(getData(M.ent[p.i][p.j])))]

\* IntegerMatrix.__setitem__(key, value) with key a tuple (i, j)
RowFillSetitem(M, i, j, value) ==
    LET p == preprocess_indices(i, j, M.nrows, M.ncols)
    IN  IF ~p.ok
        THEN [m |-> M, ret |-> Raised("IndexError")]
        ELSE [m |-> [M EXCEPT !.ent[p.i] =
                        [c \in 0 .. (M.ncols - 1) |-> assign_Z_NR_mpz(value)]],
              ret |-> Returned("none", 0)]

setitem(M, i, j, value) ==
    LET p == preprocess_indices(i, j, M.nrows, M.ncols)
    IN  IF ~p.ok
        THEN [m |-> M, ret |-> Raised("IndexError")]
        ELSE [m |-> [M EXCEPT !.ent[p.i][p.j] = assign_Z_NR_mpz(value)],
              ret |-> Returned("none", 0)]

\* IntegerMatrixRow.__init__(M, row): the row reference (owner, row)
NoView == [m |-> "none", row |-> -1]

IntegerMatrixRow(h, M, row) ==
    LET p == preprocess_indices(row, row, M.nrows, M.nrows)
    IN  IF ~p.ok
        THEN [view |-> NoView, ret |-> Raised("IndexError")]
        ELSE [view |-> [m |-> h, row |-> p.i], ret |-> Returned("row", 0)]

\* IntegerMatrix.__getitem__(key) with key an integer
getitem_row(h, M, key) ==
    LET p == preprocess_indices(key, key, M.nrows, M.nrows)
    IN  IF ~p.ok
        THEN [view |-> NoView, ret |-> Raised("IndexError")]
        ELSE IntegerMatrixRow(h, M, p.i)

\* a row reference that reads the cells as they were before the last call
StaleRowGetitem(M, row, column) ==
    LET p == preprocess_indices(column, column, M.ncols, M.ncols)
    IN  IF ~p.ok
        THEN [ret |-> Raised("IndexError")]
        ELSE [ret |-> Returned("int",
                         mpz_get_python(getData(pre[view.m].ent[row][p.i])))]

\* IntegerMatrixRow.__getitem__(column)
row_getitem(M, row, column) ==
    LET p == preprocess_indices(column, column, M.ncols, M.ncols)
    IN  IF ~p.ok
        THEN [ret |-> Raised("IndexError")]
        ELSE [ret |-> Returned("int", mpz_get_python(getData(M.ent[row][p.i])))]

\* r[column] = value: IntegerMatrixRow defines no __setitem__, the
\* interpreter raises TypeError before any method of the class runs
row_setitem(M, row, column, value) == [m |-> M, ret |-> Raised("TypeError")]

\* IntegerMatrix.set_iterable(A): the cells filled row by row from next(it),
\* from cell k on; next(it) raises StopIteration when the items run out
RECURSIVE set_iterable_from(_, _, _)
set_iterable_from(M, it, k) ==
    IF k >= M.nrows * M.ncols
    THEN [m |-> M, ret |-> Returned("none", 0)]
    ELSE IF k >= Len(it)
         THEN [m |-> M, ret |-> Raised("StopIteration")]
         ELSE set_iterable_from(
                  setitem(M, k \div M.ncols, k % M.ncols, it[k + 1]).m, it, k + 1)

set_iterable(M, it) == set_iterable_from(M, it, 0)

\* IntegerMatrix.from_iterable(nrows, ncols, it): the matrix returned, none
\* when cls(nrows, ncols) or set_iterable raises
from_iterable(nrows, ncols, it) ==
    LET A == IntegerMatrix(nrows, ncols)
    IN  IF A.ret.err # "none"
        THEN NoMatrix
        ELSE LET r == set_iterable(A.m, it)
             IN  IF r.ret.err = "none" THEN r.m ELSE NoMatrix

(***************************************************************************)
(* The iterables the matrices of the initial states are built from.        *)
(***************************************************************************)
\* 1, 2, 3, ...
Counting(n) == [k \in 1 .. n |-> k]
\* 5, -6, 7, -8, ...: both signs, values on both sides of a limb
Mixed(n) == [k \in 1 .. n |-> IF k % 2 = 1 THEN k + LimbBase ELSE -(k + LimbBase)]

Shapes == (0 .. MaxRows) \X (0 .. MaxCols)

\* IntegerMatrix.from_iterable(r, c, it) for every shape
Filled ==
    {from_iterable(s[1], s[2], Counting(s[1] * s[2])) : s \in Shapes}
    \cup {from_iterable(s[1], s[2], Mixed(s[1] * s[2])) : s \in Shapes}

\* and IntegerMatrix(r, c)
Constructed == {IntegerMatrix(s[1], s[2]).m : s \in Shapes} \cup Filled

\* the objects: the matrix A, its copy B, a second operand U, and the matrix
\* the last call returned, R
EmptyHeap == [A |-> NoMatrix, B |-> NoMatrix, U |-> NoMatrix, R |-> NoMatrix]

\* the object the program variable x names: B names what the copy bound it to
Ref(x) == IF x = "B" THEN bindB ELSE x
Bound(x) == Ref(x) \in DOMAIN heap /\ heap[Ref(x)] # NoMatrix

InitWith(S) ==
    /\ \E M \in S : heap = [EmptyHeap EXCEPT !.A = M]
    /\ bindB = "none"
    /\ view = NoView
    /\ ret = Returned("none", 0)
    /\ call = [op |-> "init"]
    /\ pre = heap
    /\ nops = 0

(***************************************************************************)
(* Calls of the element and row accessors.                                 *)
(***************************************************************************)
\* A[i, j]
GetItem(x, i, j) ==
    /\ Alive
    /\ Bound(x)
    /\ call' = [op |-> "get", h |-> Ref(x), x |-> x, i |-> i, j |-> j]
    /\ pre' = heap
    /\ ret' = getitem(heap[Ref(x)], i, j).ret
    /\ UNCHANGED <<heap, bindB, view, nops>>

\* A[i, j] = v
SetItem(x, i, j, v) ==
    /\ Alive
    /\ Bound(x)
    /\ LET r == setitem(heap[Ref(x)], i, j, v)
       IN  /\ heap' = [heap EXCEPT ![Ref(x)] = r.m]
           /\ ret' = r.ret
    /\ call' = [op |-> "set", h |-> Ref(x), x |-> x, i |-> i, j |-> j, v |-> v]
    /\ pre' = heap
    /\ nops' = nops + 1
    /\ UNCHANGED <<bindB, view>>

\* r = A[i]
GetRow(x, i) ==
    /\ Alive
    /\ Bound(x)
    /\ LET r == getitem_row(Ref(x), heap[Ref(x)], i)
       IN  /\ view' = IF r.ret.err = "none" THEN r.view ELSE view
           /\ ret' = r.ret
    /\ call' = [op |-> "row", h |-> Ref(x), x |-> x, i |-> i]
    /\ pre' = heap
    /\ UNCHANGED <<heap, bindB, nops>>

\* r[column], r the row reference taken last
RowGetItem(column) ==
    /\ Alive
    /\ view # NoView
    /\ call' = [op |-> "rowget", h |-> view.m, row |-> view.row, col |-> column]
    /\ pre' = heap
    /\ ret' = row_getitem(heap[view.m], view.row, column).ret
    /\ UNCHANGED <<heap, bindB, view, nops>>

InitAccess == InitWith({from_iterable(s[1], s[2], Mixed(s[1] * s[2])) : s \in Shapes})

NextAccess ==
    \/ \E i \in {0, -1, MaxRows}, j \in {0, -1, MaxCols} : GetItem("A", i, j)
    \/ /\ nops < MaxWrites
       /\ \E i \in RowIdx, j \in ColIdx, v \in SetVals : SetItem("A", i, j, v)
    \/ \E i \in RowIdx : GetRow("A", i)
    \/ \E c \in ColIdx : RowGetItem(c)

SpecAccess == InitAccess /\ [][NextAccess]_vars

(***************************************************************************)
(* Modular reduction.  The GMP calls are modelled by their documented      *)
(* results: mpz_mod ignores the sign of the divisor and yields a value in  *)
(* 0..|d|-1, and divides by zero (the process receives SIGFPE) when d = 0; *)
(* mpz_fdiv_q_ui rounds the quotient down.                                 *)
(***************************************************************************)
mpz_mod(n, d) == n % Abs(d)
mpz_fdiv_q_ui(n, d) == n \div d
mpz_cmp(a, b) == IF a > b THEN 1 ELSE IF a < b THEN -1 ELSE 0
mpz_sub(a, b) == a - b

\* IntegerMatrix.__copy__()
copy(M) ==
    LET A == IntegerMatrix(M.nrows, M.ncols).m
    IN  MatrixOf(A.nrows, A.ncols, M.ent)

\* the test of line 490 on the cell (i, j)
mod_selected(i, j, start_row, start_col, stop_row, stop_col) ==
    /\ start_row <= i /\ i < stop_row
    /\ start_col <= i /\ i < stop_col

\* the body of the loop of mod() on a selected cell holding t1
mod_cell(t1, q_, q2_) ==
    LET t2 == mpz_mod(t1, q_)
    IN  IF mpz_cmp(t2, q2_) > 0 THEN mpz_sub(t2, q_) ELSE t2

\* IntegerMatrix.mod(q, start_row, start_col, stop_row, stop_col)
mod(M, q, start_row, start_col, stop_row, stop_col) ==
    LET p1 == preprocess_indices(start_row, start_col, M.nrows, M.ncols)
        p2 == preprocess_indices(stop_row, stop_col, M.nrows + 1, M.ncols + 1)
        q_ == mpz_get_python(assign_mpz(q))
        q2_ == mpz_fdiv_q_ui(q_, 2)
        sel(i, j) == mod_selected(i, j, p1.i, p1.j, p2.i, p2.j)
    IN  IF ~p1.ok \/ ~p2.ok
        THEN [m |-> M, ret |-> Raised("IndexError")]
        ELSE IF q_ = 0 /\ \E c \in Cells(M) : sel(c[1], c[2])
        THEN [m |-> M, ret |-> Raised("SIGFPE")]
        ELSE [m |-> MatrixOf(M.nrows, M.ncols,
                        [i \in 0 .. (M.nrows - 1) |->
                            [j \in 0 .. (M.ncols - 1) |->
                                IF sel(i, j)
                                THEN mod_cell(M.ent[i][j], q_, q2_)
                                ELSE M.ent[i][j]]]),
              ret |-> Returned("none", 0)]

\* IntegerMatrix.__mod__(q): A = self.__copy__(); A.mod(q); return A
modop(M, q) ==
    LET r == mod(copy(M), q, 0, 0, -1, -1)
    IN  IF r.ret.err # "none"
        THEN [m |-> NoMatrix, ret |-> r.ret]
        ELSE [m |-> r.m, ret |-> Returned("matrix", 0)]

QVals == (-MaxQ) .. MaxQ
StartRows == (-1) .. MaxRows
StartCols == (-1) .. MaxCols
StopRows == (-1) .. (MaxRows + 1)
StopCols == (-1) .. (MaxCols + 1)

\* A.mod(q, start_row, start_col, stop_row, stop_col)
Mod(x, q, start_row, start_col, stop_row, stop_col) ==
    /\ Alive
    /\ Bound(x)
    /\ LET r == mod(heap[Ref(x)], q, start_row, start_col, stop_row, stop_col)
       IN  /\ heap' = [heap EXCEPT ![Ref(x)] = r.m]
           /\ ret' = r.ret
    /\ call' = [op |-> "mod", h |-> Ref(x), x |-> x, q |-> q,
                start_row |-> start_row, start_col |-> start_col,
                stop_row |-> stop_row, stop_col |-> stop_col]
    /\ pre' = heap
    /\ nops' = nops + 1
    /\ UNCHANGED <<bindB, view>>

\* R = A % q
ModOp(x, q) ==
    /\ Alive
    /\ Bound(x)
    /\ LET r == modop(heap[Ref(x)], q)
       IN  /\ heap' = IF r.ret.err = "none" THEN [heap EXCEPT !.R = r.m] ELSE heap
           /\ ret' = r.ret
    /\ call' = [op |-> "modop", h |-> Ref(x), x |-> x, q |-> q]
    /\ pre' = heap
    /\ nops' = nops + 1
    /\ UNCHANGED <<bindB, view>>

InitMod == InitWith(Constructed)

NextMod ==
    \/ /\ nops < MaxWrites
       /\ \E q \in QVals, sr \in StartRows, sc \in StartCols,
             er \in StopRows, ec \in StopCols : Mod("A", q, sr, sc, er, ec)
    \/ /\ nops < MaxWrites
       /\ \E q \in QVals : ModOp("A", q)

SpecMod == InitMod /\ [][NextMod]_vars

(***************************************************************************)
(* Submatrices.  submatrix(a, b, c, d) has two calling conventions.        *)
(*                                                                         *)
(* An iterable is its items and whether it can be traversed only once (an  *)
(* iterator or a generator, for which iter(x) is x itself).                *)
(***************************************************************************)
Iterable(items, once) == [items |-> items, once |-> once]

\* what a traversal of `it` yields when `consumed` traversals came before
Traverse(it, consumed) == IF it.once /\ consumed THEN <<>> ELSE it.items

\* submatrix(rows, cols), lines 653-687
submatrix_iter(M, rows, cols) ==
    LET m == Len(Traverse(rows, FALSE))
        n == Len(Traverse(cols, FALSE))
        A == IntegerMatrix(m, n).m
        rs == Traverse(rows, TRUE)
        cs == Traverse(cols, TRUE)
        p(i, j) == preprocess_indices(rs[i + 1], cs[j + 1], M.nrows, M.ncols)
        visited == (0 .. (Len(rs) - 1)) \X (0 .. (Len(cs) - 1))
    IN  IF \E v \in visited : ~p(v[1], v[2]).ok
        THEN [m |-> NoMatrix, ret |-> Raised("IndexError")]
        ELSE [m |-> MatrixOf(m, n,
                        [i \in 0 .. (m - 1) |-> [j \in 0 .. (n - 1) |->
                            IF <<i, j>> \in visited
                            THEN M.ent[p(i, j).i][p(i, j).j]
                            ELSE A.ent[i][j]]]),
              ret |-> Returned("matrix", 0)]

\* what a read outside the backing store may yield when it does not fault
GarbageVals == {-1, BigVal}

\* Python's c %= n for c < 0 and n > 0
PyMod(c, n) == c % n

\* submatrix(a, b, c, d), lines 688-711: the set of possible outcomes.  a, b,
\* c and d are Python objects: preprocess_indices receives temporaries
\* converted from them, so it checks the indices and its normalization of a
\* and b is lost; a negative a or b that passes the check makes the copy loop
\* read outside the backing store, which faults or yields garbage.
submatrix_range(M, a, b, c, d) ==
    LET c2 == IF c < 0 THEN PyMod(c, M.nrows) ELSE c
        d2 == IF d < 0 THEN PyMod(d, M.ncols) ELSE d
        p1 == preprocess_indices(a, b, M.nrows, M.ncols)
        p2 == preprocess_indices(c2, d2, M.nrows + 1, M.ncols + 1)
        m == c2 - a
        n == d2 - b
        inside(i, j) == a + i >= 0 /\ b + j >= 0
        result(g) == MatrixOf(m, n,
                        [i \in 0 .. (m - 1) |-> [j \in 0 .. (n - 1) |->
                            IF inside(i, j) THEN M.ent[a + i][b + j] ELSE g]])
    IN  IF (c < 0 /\ M.nrows = 0) \/ (d < 0 /\ M.ncols = 0)
        THEN {[m |-> NoMatrix, ret |-> Raised("ZeroDivisionError")]}
        ELSE IF ~p1.ok \/ ~p2.ok
        THEN {[m |-> NoMatrix, ret |-> Raised("IndexError")]}
        ELSE IF c2 < a \/ d2 < b
        THEN {[m |-> NoMatrix, ret |-> Raised("ValueError")]}
        ELSE IF \A i \in 0 .. (m - 1), j \in 0 .. (n - 1) : inside(i, j)
        THEN {[m |-> result(0), ret |-> Returned("matrix", 0)]}
        ELSE {[m |-> NoMatrix, ret |-> Raised("SIGSEGV")]}
             \cup {[m |-> result(g), ret |-> Returned("matrix", 0)] : g \in GarbageVals}

RECURSIVE SeqsUpTo(_, _)
SeqsUpTo(S, n) ==
    IF n = 0 THEN {<<>>}
    ELSE LET T == SeqsUpTo(S, n - 1)
         IN  T \cup {Append(t, x) : t \in {u \in T : Len(u) = n - 1}, x \in S}

RowSelections == {Iterable(t, o) : t \in SeqsUpTo((-1) .. MaxRows, MaxSel), o \in BOOLEAN}
ColSelections == {Iterable(t, o) : t \in SeqsUpTo((-1) .. MaxCols, MaxSel), o \in BOOLEAN}

\* R = A.submatrix(rows, cols)
SubmatrixIter(x, rows, cols) ==
    /\ Alive
    /\ Bound(x)
    /\ LET r == submatrix_iter(heap[Ref(x)], rows, cols)
       IN  /\ heap' = IF r.ret.err = "none" THEN [heap EXCEPT !.R = r.m] ELSE heap
           /\ ret' = r.ret
    /\ call' = [op |-> "subiter", h |-> Ref(x), x |-> x, rows |-> rows, cols |-> cols]
    /\ pre' = heap
    /\ nops' = nops + 1
    /\ UNCHANGED <<bindB, view>>

\* R = A.submatrix(a, b, c, d)
SubmatrixRange(x, a, b, c, d) ==
    /\ Alive
    /\ Bound(x)
    /\ \E r \in submatrix_range(heap[Ref(x)], a, b, c, d) :
          /\ heap' = IF r.ret.err = "none" THEN [heap EXCEPT !.R = r.m] ELSE heap
          /\ ret' = r.ret
    /\ call' = [op |-> "subrange", h |-> Ref(x), x |-> x, a |-> a, b |-> b, c |-> c, d |-> d]
    /\ pre' = heap
    /\ nops' = nops + 1
    /\ UNCHANGED <<bindB, view>>

InitSub == InitWith(Filled)

NextSub ==
    \/ /\ nops < MaxWrites
       /\ \E rows \in RowSelections, cols \in ColSelections :
             SubmatrixIter("A", rows, cols)
    \/ /\ nops < MaxWrites
       /\ \E a \in 0 .. MaxRows, b \in 0 .. MaxCols,
             c \in (-2) .. (MaxRows + 1), d \in (-2) .. (MaxCols + 1) :
                SubmatrixRange("A", a, b, c, d)
    \/ /\ nops < MaxWrites
       /\ \E a \in StartRows, b \in StartCols,
             c \in (-2) .. (MaxRows + 1), d \in (-2) .. (MaxCols + 1) :
                (a < 0 \/ b < 0) /\ SubmatrixRange("A", a, b, c, d)

SpecSub == InitSub /\ [][NextSub]_vars

(***************************************************************************)
(* Products and transformations.                                           *)
(***************************************************************************)
\* Z_NR.addmul(a, b): tmp += a * b
addmul(tmp, a, b) == tmp + a * b

\* the loop over k of line 413, entered at k with the accumulator tmp
RECURSIVE SkipFirstMulCell(_, _, _, _, _, _)
SkipFirstMulCell(tmp, A, B, i, j, k) ==
    IF k >= A.ncols
    THEN tmp
    ELSE SkipFirstMulCell(
             IF k = 0 THEN tmp ELSE addmul(tmp, A.ent[i][k], B.ent[k][j]),
             A, B, i, j, k + 1)

RECURSIVE mul_cell(_, _, _, _, _, _)
mul_cell(tmp, A, B, i, j, k) ==
    IF k >= A.ncols
    THEN tmp
    ELSE mul_cell(addmul(tmp, A.ent[i][k], B.ent[k][j]), A, B, i, j, k + 1)

\* IntegerMatrix.__mul__(A, B)
mul(A, B) ==
    IF A.ncols # B.nrows
    THEN [m |-> NoMatrix, ret |-> Raised("ValueError")]
    ELSE LET res == IntegerMatrix(A.nrows, B.ncols).m
         IN  [m |-> MatrixOf(res.nrows, res.ncols,
                        [i \in 0 .. (res.nrows - 1) |->
                            [j \in 0 .. (res.ncols - 1) |->
                                mul_cell(res.ent[i][j], A, B, i, j, 0)]]),
              ret |-> Returned("matrix", 0)]

\* the rows of M from start_row on overwritten with the rows of B, lines
\* 539-542; a row start_row + i < 0 is outside the backing store
write_rows(M, B, start_row) ==
    MatrixOf(M.nrows, M.ncols,
        [i \in 0 .. (M.nrows - 1) |-> [j \in 0 .. (M.ncols - 1) |->
            IF start_row <= i /\ i < start_row + B.nrows
            THEN B.ent[i - start_row][j]
            ELSE M.ent[i][j]]])

\* IntegerMatrix.apply_transform(U, start_row): the set of possible outcomes.
\* A write to a row before the first one faults, or lands outside the matrix.
apply_transform(M, U, start_row) ==
    UNION {
        IF S.ret.err # "none"
        THEN {[m |-> M, ret |-> S.ret]}
        ELSE LET B == mul(U, S.m)
             IN  IF B.ret.err # "none"
                 THEN {[m |-> M, ret |-> B.ret]}
                 ELSE IF start_row < 0 /\ Cells(B.m) # {}
                 THEN {[m |-> M, ret |-> Raised("SIGSEGV")],
                       [m |-> write_rows(M, B.m, start_row), ret |-> Returned("none", 0)]}
                 ELSE {[m |-> write_rows(M, B.m, start_row), ret |-> Returned("none", 0)]}
        : S \in submatrix_range(M, start_row, 0, start_row + U.nrows, M.ncols)}

\* IntegerMatrix.__init__(arg0) with arg0 an IntegerMatrix: the objects after
\* B = IntegerMatrix(src), and the object B names
AliasingCopy(H, src) == [heap |-> H, bind |-> src]

copy_construct(H, src) ==
    LET core == ZZ_mat(H[src].nrows, H[src].ncols)
    IN  [heap |-> [H EXCEPT !.B = MatrixOf(core.nrows, core.ncols, H[src].ent)],
         bind |-> "B"]

\* R = X * Y
Mul(x, y) ==
    /\ Alive
    /\ Bound(x) /\ Bound(y)
    /\ LET r == mul(heap[Ref(x)], heap[Ref(y)])
       IN  /\ heap' = IF r.ret.err = "none" THEN [heap EXCEPT !.R = r.m] ELSE heap
           /\ ret' = r.ret
    /\ call' = [op |-> "mul", h |-> Ref(x), x |-> x, y |-> Ref(y)]
    /\ pre' = heap
    /\ nops' = nops + 1
    /\ UNCHANGED <<bindB, view>>

\* X.apply_transform(U, start_row)
ApplyTransform(x, u, start_row) ==
    /\ Alive
    /\ Bound(x) /\ Bound(u)
    /\ \E r \in apply_transform(heap[Ref(x)], heap[Ref(u)], start_row) :
          /\ heap' = [heap EXCEPT ![Ref(x)] = r.m]
          /\ ret' = r.ret
    /\ call' = [op |-> "apply", h |-> Ref(x), x |-> x, u |-> Ref(u),
                start_row |-> start_row]
    /\ pre' = heap
    /\ nops' = nops + 1
    /\ UNCHANGED <<bindB, view>>

\* B = IntegerMatrix(A)
CopyConstruct ==
    /\ Alive
    /\ bindB = "none"
    /\ Bound("A")
    /\ LET r == copy_construct(heap, "A")
       IN  /\ heap' = r.heap
           /\ bindB' = r.bind
    /\ ret' = Returned("matrix", 0)
    /\ call' = [op |-> "copyinit", h |-> "A", x |-> "A"]
    /\ pre' = heap
    /\ UNCHANGED <<view, nops>>

\* B = A.__copy__()
CopyMethod ==
    /\ Alive
    /\ bindB = "none"
    /\ Bound("A")
    /\ heap' = [heap EXCEPT !.B = copy(heap.A)]
    /\ bindB' = "B"
    /\ ret' = Returned("matrix", 0)
    /\ call' = [op |-> "copy", h |-> "A", x |-> "A"]
    /\ pre' = heap
    /\ UNCHANGED <<view, nops>>

\* two matrices, A and U
InitWithPair(S, T) ==
    /\ \E M \in S, N \in T : heap = [EmptyHeap EXCEPT !.A = M, !.U = N]
    /\ bindB = "none"
    /\ view = NoView
    /\ ret = Returned("none", 0)
    /\ call = [op |-> "init"]
    /\ pre = heap
    /\ nops = 0

InitMul == InitWithPair(Filled, Filled)

NextMul ==
    \/ /\ nops < MaxWrites
       /\ \E x \in {"A", "U"}, y \in {"A", "U"} : Mul(x, y)
    \/ /\ nops < MaxWrites
       /\ \E s \in StartRows : ApplyTransform("A", "U", s)

SpecMul == InitMul /\ [][NextMul]_vars

\* the square matrices 1, 2, 3, ... used as transformations
SquareCounting == {from_iterable(k, k, Counting(k * k)) : k \in 0 .. MaxRows}

InitCopy == InitWithPair(Filled, SquareCounting)

Vars == {"A", "B"}

NextCopy ==
    \/ CopyConstruct
    \/ CopyMethod
    \/ /\ bindB # "none" /\ nops < MaxSeq
       /\ \E x \in Vars, k \in {0, -1}, v \in SetVals : SetItem(x, k, k, v)
    \/ /\ bindB # "none" /\ nops < MaxSeq
       /\ \E x \in Vars : Mod(x, MaxQ, 0, 0, -1, -1)
    \/ /\ bindB # "none" /\ nops < MaxSeq
       /\ \E x \in Vars, s \in {0, 1} : ApplyTransform(x, "U", s)

SpecCopy == InitCopy /\ [][NextCopy]_vars

(***************************************************************************)
(* Generators.  The generators themselves belong to the wrapped matrix     *)
(* core; a generator overwrites the entries of the matrix it is called on  *)
(* with pseudo-random draws: gen_uniform with values of `bits` bits, the   *)
(* structured generators with any of the values their parameters allow.    *)
(***************************************************************************)
\* the generators called with a size parameter bits draw values of that
\* many bits; MaxBits bounds the parameter
MaxBits == 2

RECURSIVE Pow2(_)
Pow2(n) == IF n = 0 THEN 1 ELSE 2 * Pow2(n - 1)

\* the matrices with the shape of M and entries in V
Filling(M, V) ==
    [nrows : {M.nrows}, ncols : {M.ncols},
     ent : [0 .. (M.nrows - 1) -> [0 .. (M.ncols - 1) -> V]]]

\* the matrices a generator writing values of V leaves behind when a signal
\* ends it: every entry is the old one or one of V
Interrupted(M, V) ==
    {G \in Filling(M, V \cup {M.ent[c[1]][c[2]] : c \in Cells(M)}) :
        \A c \in Cells(M) : G.ent[c[1]][c[2]] \in V \cup {M.ent[c[1]][c[2]]}}

Keywords == {"bits", "bits2", "q", "alpha"}

\* the values a generator may write for one of its parameters: draws of
\* bits (bits2) bits and the unit entries, the modulus q, and for ajtai the
\* draws of either sign its exponent alpha allows
ParamVals(k, v) ==
    IF k = "q" THEN {0, 1, v}
    ELSE IF k = "alpha" THEN (-Pow2(v)) .. Pow2(v)
    ELSE 0 .. Pow2(v)

\* self._core.gen_uniform(bits): every entry drawn from [0, 2^bits)
gen_uniform(M, bits) == Filling(M, 0 .. (Pow2(bits) - 1))

\* the values self._core.gen_<name>(args) writes, args the keywords read
GenVals(name, args) ==
    IF name = "gen_uniform"
    THEN 0 .. (Pow2(args["bits"]) - 1)
    ELSE UNION {ParamVals(k, args[k]) : k \in DOMAIN args}

\* self._core.gen_intrel / gen_simdioph / gen_ntrulike / gen_ntrulike2 /
\* gen_ajtai called with args: the matrices the generator can leave behind
gen(M, name, args) ==
    IF name = "gen_uniform" THEN gen_uniform(M, args["bits"])
    ELSE Filling(M, GenVals(name, args))

\* the values a caller passes for a keyword
KeywordVals(k) ==
    IF k = "bits" THEN 1 .. MaxBits
    ELSE IF k = "bits2" THEN {MaxBits}
    ELSE IF k = "q" THEN {Pow2(MaxBits) + 1}
    ELSE {1}

\* the branches of randomize: the name each one compares algorithm with, the
\* keywords it reads from kwds, the generator it calls, and whether the call
\* stands between sig_on() and sig_off()
Branches ==
    << [name |-> "intrel",    kwds |-> {"bits"},          gen |-> "gen_intrel",
        sig |-> TRUE],
       [name |-> "simdioph",  kwds |-> {"bits", "bits2"}, gen |-> "gen_simdioph",
        sig |-> FALSE],
       [name |-> "uniform",   kwds |-> {"bits"},          gen |-> "gen_uniform",
        sig |-> TRUE],
       [name |-> "ntrulike",  kwds |-> {"bits", "q"},     gen |-> "gen_ntrulike",
        sig |-> TRUE],
       [name |-> "ntrulike2", kwds |-> {"bits", "q"},     gen |-> "gen_ntrulike2",
        sig |-> TRUE],
       [name |-> "atjai",     kwds |-> {"alpha"},         gen |-> "gen_ajtai",
        sig |-> TRUE] >>

\* IntegerMatrix.randomize(algorithm, **kwds): the if/elif chain from branch
\* k; kwds maps the keywords given to their values.  Between sig_on() and
\* sig_off() a signal may end the generator with KeyboardInterrupt.
RECURSIVE randomize_from(_, _, _, _)
randomize_from(M, algorithm, kwds, k) ==
    IF k > Len(Branches)
    THEN {[m |-> M, ret |-> Raised("ValueError")]}
    ELSE IF algorithm = Branches[k].name
         THEN IF ~(Branches[k].kwds \subseteq DOMAIN kwds)
              THEN {[m |-> M, ret |-> Raised("KeyError")]}
              ELSE LET args == [a \in Branches[k].kwds |-> kwds[a]]
                       g == Branches[k].gen
                   IN  [m : gen(M, g, args), ret : {Returned(g, 0)}]
                       \cup (IF Branches[k].sig
                             THEN [m : Interrupted(M, GenVals(g, args)),
                                   ret : {Raised("KeyboardInterrupt")}]
                             ELSE {})
         ELSE randomize_from(M, algorithm, kwds, k + 1)

randomize(M, algorithm, kwds) == randomize_from(M, algorithm, kwds, 1)

\* self._core.gen_identity(nrows): the leading block, as far as the matrix
\* has it, becomes the identity; the matrix is resized to nrows x nrows, or
\* keeps its shape with the other entries zeroed or kept
Identity(r, c, n, rest) ==
    MatrixOf(r, c, [i \in 0 .. (r - 1) |-> [j \in 0 .. (c - 1) |->
        IF i < n /\ j < n THEN (IF i = j THEN 1 ELSE 0) ELSE rest[i][j]]])

gen_identity(M, nrows) ==
    {Identity(nrows, nrows, nrows, M.ent),
     Identity(M.nrows, M.ncols, nrows, ZZ_mat(M.nrows, M.ncols).ent),
     Identity(M.nrows, M.ncols, nrows, M.ent)}

\* the names a caller passes
Algorithms ==
    {"intrel", "simdioph", "uniform", "ntrulike", "ntrulike2", "ajtai",
     "atjai", "gauss"}

\* A.randomize(algorithm, **kwds)
Randomize(x, algorithm, kwds) ==
    /\ Alive
    /\ Bound(x)
    /\ \E r \in randomize(heap[Ref(x)], algorithm, kwds) :
          /\ heap' = [heap EXCEPT ![Ref(x)] = r.m]
          /\ ret' = r.ret
    /\ call' = [op |-> "randomize", h |-> Ref(x), x |-> x,
                algorithm |-> algorithm, kwds |-> kwds]
    /\ pre' = heap
    /\ nops' = nops + 1
    /\ UNCHANGED <<bindB, view>>

\* A.gen_identity(nrows)
GenIdentity(x, nrows) ==
    /\ Alive
    /\ Bound(x)
    /\ \E G \in gen_identity(heap[Ref(x)], nrows) :
          heap' = [heap EXCEPT ![Ref(x)] = G]
    /\ ret' = Returned("none", 0)
    /\ call' = [op |-> "gen_identity", h |-> Ref(x), x |-> x, nrows |-> nrows]
    /\ pre' = heap
    /\ nops' = nops + 1
    /\ UNCHANGED <<bindB, view>>

\* the keyword arguments of a call: all four, all but one, or none
KeywordArgs ==
    UNION {[S -> UNION {KeywordVals(k) : k \in S}] :
              S \in {Keywords, {}} \cup {Keywords \ {k} : k \in Keywords}}

Kwds == {kw \in KeywordArgs : \A k \in DOMAIN kw : kw[k] \in KeywordVals(k)}

\* a generator is called on a matrix that has entries to fill
InitRand == InitWith({M \in Filled : Cells(M) # {}})

NextRand ==
    \/ /\ nops < MaxWrites
       /\ \E a \in Algorithms, kw \in Kwds : Randomize("A", a, kw)
    \/ /\ nops < MaxWrites
       /\ \E n \in 0 .. (MaxRows + 1) : GenIdentity("A", n)

SpecRand == InitRand /\ [][NextRand]_vars

(***************************************************************************)
(* Row references and slices.                                              *)
(***************************************************************************)
\* slice(start, stop).indices(n): the bounds clamped into 0 .. n
slice_index(k, n) ==
    IF k < 0
    THEN (IF k + n < 0 THEN 0 ELSE k + n)
    ELSE (IF k > n THEN n ELSE k)

\* range(lo, hi) as the sequence of its items
range(lo, hi) == [k \in 1 .. (IF hi > lo THEN hi - lo ELSE 0) |-> lo + k - 1]

\* IntegerMatrix.__getitem__(key) with key the slice start:stop
getitem_slice(M, start, stop) ==
    LET key == range(slice_index(start, M.nrows), slice_index(stop, M.nrows))
    IN  submatrix_iter(M, Iterable(key, FALSE), Iterable(range(0, M.ncols), FALSE))

\* R = A[start:stop]
Slice(x, start, stop) ==
    /\ Alive
    /\ Bound(x)
    /\ LET r == getitem_slice(heap[Ref(x)], start, stop)
       IN  /\ heap' = IF r.ret.err = "none" THEN [heap EXCEPT !.R = r.m] ELSE heap
           /\ ret' = r.ret
    /\ call' = [op |-> "slice", h |-> Ref(x), x |-> x, start |-> start, stop |-> stop]
    /\ pre' = heap
    /\ UNCHANGED <<bindB, view, nops>>

\* r[column] = v, r the row reference taken last
RowSetItem(column, v) ==
    /\ Alive
    /\ view # NoView
    /\ LET r == row_setitem(heap[view.m], view.row, column, v)
       IN  /\ heap' = [heap EXCEPT ![view.m] = r.m]
           /\ ret' = r.ret
    /\ call' = [op |-> "rowset", h |-> view.m, row |-> view.row, col |-> column,
                v |-> v]
    /\ pre' = heap
    /\ UNCHANGED <<bindB, view, nops>>

\* R = A.submatrix(0, 0, c, d): the leading c x d block
LeadingBlock(x, c, d) ==
    /\ heap.R = NoMatrix
    /\ SubmatrixRange(x, 0, 0, c, d)

\* the matrices a row reference is taken of
Viewed == {from_iterable(s[1], s[2], Mixed(s[1] * s[2])) : s \in Shapes}

InitView == InitWithPair(Viewed, SquareCounting)

\* the reference and the copy are taken once each, the calls on A follow
NextView ==
    \/ /\ view = NoView
       /\ \E i \in RowIdx : GetRow("A", i)
    \/ \E c \in {0, -1} : RowGetItem(c)
    \/ \E c \in {0, -1} : RowSetItem(c, BigVal)
    \/ /\ heap.R = NoMatrix
       /\ \E s \in RowIdx, t \in RowIdx : Slice("A", s, t)
    \/ /\ nops < MaxSeq
       /\ \E c \in {1, MaxRows}, d \in {1, MaxCols} : LeadingBlock("A", c, d)
    \/ /\ nops < MaxSeq
       /\ \E k \in {0, -1} : SetItem("A", k, k, BigVal)
    \/ /\ nops < MaxSeq
       /\ Mod("A", MaxQ, 0, 0, -1, -1)
    \/ /\ nops < MaxSeq
       /\ \E s \in {0, 1} : ApplyTransform("A", "U", s)

SpecView == InitView /\ [][NextView]_vars

(***************************************************************************)
(* Matrix-like objects.  A matrix-like object is either an IntegerMatrix,  *)
(* which takes the key (i, j), or a list of lists, which takes A[i][j]     *)
(* only: a list raises TypeError for a tuple key.                          *)
(***************************************************************************)
Kinds == {"IntegerMatrix", "list"}

MatrixLike(kind, N) ==
    [kind |-> kind, nrows |-> N.nrows, ncols |-> N.ncols, ent |-> N.ent]

\* A[i, j] = value
like_setitem(A, i, j, value) ==
    IF A.kind = "list"
    THEN [m |-> A, ret |-> Raised("TypeError")]
    ELSE setitem(A, i, j, value)

\* A[i, j]
like_getitem(A, i, j) ==
    IF A.kind = "list"
    THEN [ret |-> Raised("TypeError")]
    ELSE getitem(A, i, j)

\* A[i][j], i and j counted from 0: A[i] is evaluated first, for an
\* IntegerMatrix it is the row reference IntegerMatrix.__getitem__ returns
like_getitem2(A, i, j) ==
    IF A.kind = "list"
    THEN IF i < A.nrows /\ j < A.ncols
         THEN [ret |-> Returned("int", A.ent[i][j])]
         ELSE [ret |-> Raised("IndexError")]
    ELSE LET r == getitem_row("none", A, i)
         IN  IF r.ret.err # "none"
             THEN [ret |-> r.ret]
             ELSE row_getitem(A, r.view.row, j)

\* A[i][j] = value
like_setitem2(A, i, j, value) ==
    IF A.kind = "list"
    THEN IF i < A.nrows /\ j < A.ncols
         THEN [m |-> [A EXCEPT !.ent[i][j] = value], ret |-> Returned("none", 0)]
         ELSE [m |-> A, ret |-> Raised("IndexError")]
    ELSE LET r == getitem_row("none", A, i)
         IN  IF r.ret.err # "none"
             THEN [m |-> A, ret |-> r.ret]
             ELSE row_setitem(A, r.view.row, j, value)

\* to_matrix, the loop of the try block from cell k on: A[i, j] = self[i, j]
RECURSIVE to_matrix_try(_, _, _)
to_matrix_try(M, A, k) ==
    IF k >= M.nrows * M.ncols
    THEN [m |-> A, ret |-> Returned("like", 0)]
    ELSE LET i == k \div M.ncols
             j == k % M.ncols
             r == like_setitem(A, i, j, getitem(M, i, j).ret.val)
         IN  IF r.ret.err # "none" THEN r ELSE to_matrix_try(M, r.m, k + 1)

\* to_matrix, the loop of the except block from cell k on: A[i][j] = A[i][j]
RECURSIVE to_matrix_except(_, _, _)
to_matrix_except(M, A, k) ==
    IF k >= M.nrows * M.ncols
    THEN [m |-> A, ret |-> Returned("like", 0)]
    ELSE LET i == k \div M.ncols
             j == k % M.ncols
             v == like_getitem2(A, i, j)
             r == like_setitem2(A, i, j, v.ret.val)
         IN  IF v.ret.err # "none" THEN [m |-> A, ret |-> v.ret]
             ELSE IF r.ret.err # "none" THEN r
             ELSE to_matrix_except(M, r.m, k + 1)

\* IntegerMatrix.to_matrix(A)
to_matrix(M, A) ==
    LET r == to_matrix_try(M, A, 0)
    IN  IF r.ret.err = "TypeError" THEN to_matrix_except(M, r.m, 0) ELSE r

\* set_matrix, either loop from cell k on: self[i, j] = A[i, j] in the try
\* block, self[i, j] = A[i][j] in the except block
RECURSIVE set_matrix_from(_, _, _, _)
set_matrix_from(M, A, k, except) ==
    IF k >= M.nrows * M.ncols
    THEN [m |-> M, ret |-> Returned("none", 0)]
    ELSE LET i == k \div M.ncols
             j == k % M.ncols
             v == IF except THEN like_getitem2(A, i, j) ELSE like_getitem(A, i, j)
             r == setitem(M, i, j, v.ret.val)
         IN  IF v.ret.err # "none" THEN [m |-> M, ret |-> v.ret]
             ELSE IF r.ret.err # "none" THEN r
             ELSE set_matrix_from(r.m, A, k + 1, except)

\* IntegerMatrix.set_matrix(A)
set_matrix(M, A) ==
    LET r == set_matrix_from(M, A, 0, FALSE)
    IN  IF r.ret.err = "TypeError" THEN set_matrix_from(r.m, A, 0, TRUE) ELSE r

\* IntegerMatrix.from_matrix(A), nrows and ncols left out
from_matrix(A) ==
    IF A.kind = "list" /\ A.nrows = 0
    THEN [m |-> NoMatrix, ret |-> Raised("IndexError")]
    ELSE LET B == IntegerMatrix(A.nrows, A.ncols).m
             r == set_matrix(B, A)
         IN  IF r.ret.err # "none"
             THEN [m |-> NoMatrix, ret |-> r.ret]
             ELSE [m |-> r.m, ret |-> Returned("matrix", 0)]

\* X.to_matrix(T)
ToMatrix(x, t) ==
    /\ Alive
    /\ Bound(x) /\ Bound(t)
    /\ LET r == to_matrix(heap[Ref(x)], heap[Ref(t)])
       IN  /\ heap' = [heap EXCEPT ![Ref(t)] = r.m]
           /\ ret' = r.ret
    /\ call' = [op |-> "to_matrix", h |-> Ref(x), x |-> x, t |-> Ref(t)]
    /\ pre' = heap
    /\ nops' = nops + 1
    /\ UNCHANGED <<bindB, view>>

\* R = IntegerMatrix.from_matrix(T); `after` is the call that came before
FromMatrix(t) ==
    /\ Alive
    /\ Bound(t)
    /\ LET r == from_matrix(heap[Ref(t)])
       IN  /\ heap' = IF r.ret.err = "none" THEN [heap EXCEPT !.R = r.m] ELSE heap
           /\ ret' = r.ret
    /\ call' = [op |-> "from_matrix", t |-> Ref(t),
                after |-> IF ret.err = "none" THEN call.op ELSE "error"]
    /\ pre' = heap
    /\ nops' = nops + 1
    /\ UNCHANGED <<bindB, view>>

\* X.set_matrix(T)
SetMatrix(x, t) ==
    /\ Alive
    /\ Bound(x) /\ Bound(t)
    /\ LET r == set_matrix(heap[Ref(x)], heap[Ref(t)])
       IN  /\ heap' = [heap EXCEPT ![Ref(x)] = r.m]
           /\ ret' = r.ret
    /\ call' = [op |-> "set_matrix", h |-> Ref(x), x |-> x, t |-> Ref(t)]
    /\ pre' = heap
    /\ nops' = nops + 1
    /\ UNCHANGED <<bindB, view>>

\* X.set_iterable(it)
SetIterable(x, it) ==
    /\ Alive
    /\ Bound(x)
    /\ LET r == set_iterable(heap[Ref(x)], it)
       IN  /\ heap' = [heap EXCEPT ![Ref(x)] = r.m]
           /\ ret' = r.ret
    /\ call' = [op |-> "set_iterable", h |-> Ref(x), x |-> x, it |-> it]
    /\ pre' = heap
    /\ nops' = nops + 1
    /\ UNCHANGED <<bindB, view>>

\* the targets: zero-filled matrix-like objects of every shape
Targets == {MatrixLike(k, IntegerMatrix(s[1], s[2]).m) : k \in Kinds, s \in Shapes}

InitTo == InitWithPair(Filled, Targets)

NextTo ==
    \/ /\ nops < MaxSeq
       /\ ToMatrix("A", "U")
    \/ /\ nops < MaxSeq
       /\ FromMatrix("U")
    \/ /\ nops < MaxSeq
       /\ SetMatrix("A", "U")
    \/ /\ nops < MaxSeq
       /\ \E n \in {MaxRows, MaxRows * MaxCols} : SetIterable("A", Mixed(n))

SpecTo == InitTo /\ [][NextTo]_vars

(***************************************************************************)
(* Python's reading of an index k into a dimension of size dim.            *)
(***************************************************************************)
PyIndex(k, dim) == IF k < 0 THEN dim + k ELSE k
InRange(k, dim) == -dim <= k /\ k < dim

\* C5: for every valid (i,j) and every integer v, also one beyond the word
\* range, after set(i,j,v) the call get(i,j) returns v, every other entry
\* keeps its value and the shape is unchanged.
C5_SetThenGet ==
    call.op = "set" =>
        LET P == pre[call.h]
            M == heap[call.h]
        IN  (InRange(call.i, P.nrows) /\ InRange(call.j, P.ncols)) =>
                /\ ret.err = "none"
                /\ getitem(M, call.i, call.j).ret = Returned("int", call.v)
                /\ M.nrows = P.nrows /\ M.ncols = P.ncols
                /\ \A c \in Cells(P) :
                      c # <<PyIndex(call.i, P.nrows), PyIndex(call.j, P.ncols)>>
                          => M.ent[c[1]][c[2]] = P.ent[c[1]][c[2]]
                /\ \A g \in DOMAIN heap : g # call.h => heap[g] = pre[g]

\* a value of three limbs has been stored in a matrix with other, nonzero cells
C5_Witness ==
    /\ call.op = "set" /\ ret.err = "none"
    /\ Abs(call.v) >= LimbBase * LimbBase
    /\ heap[call.h].ent[PyIndex(call.i, heap[call.h].nrows)]
                       [PyIndex(call.j, heap[call.h].ncols)] = call.v
    /\ \E c \in Cells(pre[call.h]) :
          /\ c # <<PyIndex(call.i, pre[call.h].nrows), PyIndex(call.j, pre[call.h].ncols)>>
          /\ pre[call.h].ent[c[1]][c[2]] # 0

(***************************************************************************)
(* The centered representative of v modulo q > 0.                          *)
(***************************************************************************)
Centered(v, q) == LET r == v % q IN IF r <= q \div 2 THEN r ELSE r - q

\* C2: mod(q, startRow, startCol, stopRow, stopCol) with q > 0 replaces by
\* its centered representative exactly the entries (i,j) with
\* startRow <= i < stopRow and startCol <= j < stopCol, a stop of -1 meaning
\* through the end, and leaves every other entry unchanged, whatever the shape.
C2_ModRectangle ==
    (call.op = "mod" /\ call.q > 0) =>
        LET P == pre[call.h]
            M == heap[call.h]
            r0 == PyIndex(call.start_row, P.nrows)
            c0 == PyIndex(call.start_col, P.ncols)
            r1 == PyIndex(call.stop_row, P.nrows + 1)
            c1 == PyIndex(call.stop_col, P.ncols + 1)
        IN  ret.err = "none" =>
                /\ M.nrows = P.nrows /\ M.ncols = P.ncols
                /\ \A c \in Cells(P) :
                      M.ent[c[1]][c[2]] =
                          IF r0 <= c[1] /\ c[1] < r1 /\ c0 <= c[2] /\ c[2] < c1
                          THEN Centered(P.ent[c[1]][c[2]], call.q)
                          ELSE P.ent[c[1]][c[2]]

\* C3: for a matrix A of any shape and q > 0, A % q is a new matrix of the
\* shape of A whose entry e(i,j) is congruent to A[i,j] modulo q with
\* -q/2 < e <= q/2, and A is unchanged.
C3_ModOperator ==
    (call.op = "modop" /\ call.q > 0 /\ ret.err = "none") =>
        LET A == pre[call.h]
            R == heap.R
        IN  /\ heap[call.h] = A
            /\ R.nrows = A.nrows /\ R.ncols = A.ncols
            /\ \A c \in Cells(A) :
                  LET e == R.ent[c[1]][c[2]]
                  IN  /\ (e - A.ent[c[1]][c[2]]) % call.q = 0
                      /\ -call.q < 2 * e /\ 2 * e <= call.q

\* C4: mod(q, ...) and A % q with q = 0 or q < 0 report an error and leave
\* every entry unchanged.
C4_NonPositiveModulus ==
    (call.op \in {"mod", "modop"} /\ call.q <= 0) =>
        /\ ret.err # "none"
        /\ heap = pre

\* C7: submatrix(rowStart, colStart, rowStop, colStop) normalizes negative
\* starts against rows/cols and negative stops against rows+1/cols+1 (a stop
\* of -1 is rows), raises an error when a stop is before its start or an index
\* is out of range, and otherwise returns a new matrix of shape
\* (rowStop-rowStart) x (colStop-colStart) with entry (i,j) = A[rowStart+i,
\* colStart+j]; A is unchanged.
C7_SubmatrixRange ==
    call.op = "subrange" =>
        LET A == pre[call.h]
            a == PyIndex(call.a, A.nrows)
            b == PyIndex(call.b, A.ncols)
            c == PyIndex(call.c, A.nrows + 1)
            d == PyIndex(call.d, A.ncols + 1)
            bad == \/ ~(0 <= a /\ a < A.nrows) \/ ~(0 <= b /\ b < A.ncols)
                   \/ ~(0 <= c /\ c <= A.nrows) \/ ~(0 <= d /\ d <= A.ncols)
                   \/ c < a \/ d < b
        IN  /\ heap[call.h] = A
            /\ IF bad
               THEN ret.err # "none"
               ELSE /\ ret.err = "none"
                    /\ heap.R = MatrixOf(c - a, d - b,
                          [i \in 0 .. (c - a - 1) |-> [j \in 0 .. (d - b - 1) |->
                              A.ent[a + i][b + j]]])

\* C8: submatrix(rows, cols) with iterables of in-range indices, repeated
\* or not monotonic, traversable once or many times, returns a new
\* count(rows) x count(cols) matrix with entry (i,j) = A[rows[i], cols[j]] in
\* the requested order; A is unchanged.
C8_SubmatrixIterables ==
    (/\ call.op = "subiter"
     /\ \A k \in DOMAIN call.rows.items : InRange(call.rows.items[k], pre[call.h].nrows)
     /\ \A k \in DOMAIN call.cols.items : InRange(call.cols.items[k], pre[call.h].ncols))
    =>  LET A == pre[call.h]
            m == Len(call.rows.items)
            n == Len(call.cols.items)
        IN  /\ heap[call.h] = A
            /\ ret.err = "none"
            /\ heap.R = MatrixOf(m, n,
                  [i \in 0 .. (m - 1) |-> [j \in 0 .. (n - 1) |->
                      A.ent[PyIndex(call.rows.items[i + 1], A.nrows)]
                           [PyIndex(call.cols.items[j + 1], A.ncols)]]])

\* C6: after B = IntegerMatrix(A), B equals A in shape and in every entry,
\* and whatever set/mod/apply_transform call is made later on one of the two
\* matrices, the entries of the other do not change.
C6_CopyIndependent ==
    /\ call.op \in {"copyinit", "copy"} =>
          /\ Bound("B")
          /\ heap[Ref("B")] = pre.A
          /\ heap.A = pre.A
    /\ (bindB # "none" /\ call.op \in {"set", "mod", "apply"}) =>
          LET other == IF call.x = "A" THEN "B" ELSE "A"
          IN  heap[Ref(other)] = pre[Ref(other)]

\* the copy has been changed by a second call after the copy construction
\* and differs from the original, which kept its entries
C6_Witness ==
    /\ bindB # "none" /\ nops = 2
    /\ call.op \in {"set", "mod", "apply"} /\ call.x = "B" /\ ret.err = "none"
    /\ heap[Ref("B")] # pre[Ref("B")]
    /\ heap[Ref("B")] # heap.A
    /\ heap.A = pre.A

\* the sum over k < n of A[i,k] * B[k,j]
RECURSIVE DotSum(_, _, _, _, _)
DotSum(A, B, i, j, n) ==
    IF n = 0 THEN 0 ELSE DotSum(A, B, i, j, n - 1) + A.ent[i][n - 1] * B.ent[n - 1][j]

\* C9: applyTransform(U, startRow) with 0 <= startRow and startRow + U.rows
\* <= rows overwrites rows [startRow, startRow+U.rows) with U x S, S being
\* those rows before the call, and leaves the other rows, the shape and U
\* unchanged; a call that fails (U not square, or a row range that does not
\* fit) reports an error and modifies no entry.  Stated for a matrix and a
\* transformation that have cells.
C9_ApplyTransform ==
    (call.op = "apply" /\ Cells(pre[call.h]) # {} /\ Cells(pre[call.u]) # {}) =>
        LET A == pre[call.h]
            U == pre[call.u]
            s == call.start_row
        IN  IF 0 <= s /\ s + U.nrows <= A.nrows /\ U.ncols = U.nrows
            THEN /\ ret.err = "none"
                 /\ heap[call.u] = U
                 /\ heap[call.h] = MatrixOf(A.nrows, A.ncols,
                       [i \in 0 .. (A.nrows - 1) |-> [j \in 0 .. (A.ncols - 1) |->
                           IF s <= i /\ i < s + U.nrows
                           THEN DotSum(U, [A EXCEPT !.ent =
                                    [r \in 0 .. (U.nrows - 1) |-> A.ent[s + r]]],
                                    i - s, j, U.ncols)
                           ELSE A.ent[i][j]]])
            ELSE /\ ret.err # "none"
                 /\ heap = pre

\* C10: A x B succeeds exactly when A.cols = B.rows and raises an error
\* otherwise; the product is a new A.rows x B.cols matrix whose entry (i,j) is
\* the sum over k of A[i,k] * B[k,j], zero when the shared dimension is 0;
\* A and B are unchanged.
C10_Product ==
    call.op = "mul" =>
        LET A == pre[call.h]
            B == pre[call.y]
        IN  /\ heap[call.h] = A /\ heap[call.y] = B
            /\ IF A.ncols = B.nrows
               THEN /\ ret.err = "none"
                    /\ heap.R = MatrixOf(A.nrows, B.ncols,
                          [i \in 0 .. (A.nrows - 1) |-> [j \in 0 .. (B.ncols - 1) |->
                              DotSum(A, B, i, j, A.ncols)]])
               ELSE ret = Raised("ValueError") /\ heap = pre

\* a product of two matrices that are not square, over a shared dimension
\* of 2, has been returned and has a nonzero entry
C10_Witness ==
    /\ call.op = "mul" /\ ret.err = "none"
    /\ pre[call.h].ncols = 2 /\ pre[call.h].nrows # 2
    /\ heap.R.nrows = pre[call.h].nrows /\ heap.R.ncols = pre[call.y].ncols
    /\ \E c \in Cells(heap.R) : heap.R.ent[c[1]][c[2]] # 0

(***************************************************************************)
(* Generator dispatch.                                                     *)
(***************************************************************************)
\* the six generator names and the generator each one stands for
GeneratorOf ==
    [intrel |-> "gen_intrel", simdioph |-> "gen_simdioph",
     uniform |-> "gen_uniform", ntrulike |-> "gen_ntrulike",
     ntrulike2 |-> "gen_ntrulike2", ajtai |-> "gen_ajtai"]

\* C11: randomize(algorithm, ...) dispatches to a generator for each of the
\* six names intrel, simdioph, uniform, ntrulike, ntrulike2 and ajtai (the
\* generator's parameters being given), and for any other name reports an
\* error and leaves every entry of the matrix unchanged.
C11_RandomizeDispatch ==
    call.op = "randomize" =>
        IF call.algorithm \in DOMAIN GeneratorOf
        THEN DOMAIN call.kwds = Keywords =>
                 \/ ret = Returned(GeneratorOf[call.algorithm], 0)
                 \/ ret = Raised("KeyboardInterrupt")
        ELSE /\ ret.err # "none"
             /\ heap[call.h] = pre[call.h]

(***************************************************************************)
(* Row references and copies.                                              *)
(***************************************************************************)
\* the rows start:stop selects from n rows, as Python reads a slice
SliceBound(k, n) == IF k < -n THEN 0 ELSE IF k < 0 THEN n + k ELSE IF k > n THEN n ELSE k

Mutators == {"set", "mod", "apply"}

\* C12: a RowView r = row(i) of M is a live, read-only reference: in every
\* state reached by later set/mod/apply_transform calls on M, r.get(c)
\* equals M.get(i,c) for every column c; an element assignment through r
\* reports an error and leaves M unchanged; a matrix returned by slice or
\* submatrix is an independent copy that later changes to M never affect.
C12_RowViewLive ==
    /\ (Alive /\ view # NoView) =>
          \A c \in ColIdx :
              row_getitem(heap[view.m], view.row, c).ret
                  = getitem(heap[view.m], view.row, c).ret
    /\ (call.op = "row" /\ ret.err = "none") =>
          \A c \in ColIdx :
              row_getitem(heap[view.m], view.row, c).ret
                  = getitem(heap[call.h], call.i, c).ret
    /\ (Alive /\ call.op \in Mutators) =>
          /\ heap[call.h].nrows = pre[call.h].nrows
          /\ heap[call.h].ncols = pre[call.h].ncols
    /\ call.op = "rowset" => (ret.err # "none" /\ heap = pre)
    /\ call.op = "slice" =>
          LET M  == pre[call.h]
              lo == SliceBound(call.start, M.nrows)
              hi == SliceBound(call.stop, M.nrows)
              m  == IF hi > lo THEN hi - lo ELSE 0
          IN  /\ ret.err = "none"
              /\ heap[call.h] = M
              /\ heap.R.nrows = m /\ heap.R.ncols = M.ncols
              /\ \A v \in Cells(heap.R) : heap.R.ent[v[1]][v[2]] = M.ent[lo + v[1]][v[2]]
    /\ (Alive /\ call.op \in Mutators \cup {"row", "rowget", "rowset"}) =>
          heap.R = pre.R

\* a row reference and a slice were taken, then a set on M changed a cell of
\* the referenced row: the reference reads the new value, the slice still
\* holds the old row
C12_Witness ==
    /\ view # NoView /\ heap.R # NoMatrix
    /\ call.op = "set" /\ call.h = view.m /\ ret.err = "none"
    /\ heap[view.m].ent[view.row] # pre[view.m].ent[view.row]
    /\ \E c \in 0 .. (heap[view.m].ncols - 1) :
          /\ row_getitem(heap[view.m], view.row, c).ret = Returned("int", call.v)
          /\ pre[view.m].ent[view.row][c] # call.v
    /\ heap.R.nrows >= 1
    /\ heap.R.ent[0] = pre[view.m].ent[view.row]
    /\ heap.R = pre.R

(***************************************************************************)
(* Writing a matrix into a matrix-like object.                             *)
(***************************************************************************)
\* C13: to_matrix(T) writes this matrix into the matrix-like target T and
\* returns it: after the call T at (i,j) holds M[i,j] for every cell of M,
\* both when T supports T[i,j] and when T supports only T[i][j], and M is
\* unchanged; consequently from_matrix(M.to_matrix(T)) equals M for a
\* list-of-lists target T of the same shape.  T has the shape of M.
C13_ToMatrix ==
    /\ (call.op = "to_matrix"
            /\ pre[call.t].nrows = pre[call.h].nrows
            /\ pre[call.t].ncols = pre[call.h].ncols) =>
          LET M == pre[call.h]
          IN  /\ ret.err = "none"
              /\ heap[call.h] = M
              /\ heap[call.t].kind = pre[call.t].kind
              /\ heap[call.t].nrows = M.nrows /\ heap[call.t].ncols = M.ncols
              /\ \A v \in Cells(M) : heap[call.t].ent[v[1]][v[2]] = M.ent[v[1]][v[2]]
    /\ (call.op = "from_matrix" /\ call.after = "to_matrix"
            /\ heap[call.t].kind = "list"
            /\ heap[call.t].nrows = heap.A.nrows
            /\ heap[call.t].ncols = heap.A.ncols) =>
          /\ ret.err = "none"
          /\ heap.R = heap.A

====
